---- MODULE Spec2Model ----
(***************************************************************************)
(* A model of RF_clone.ino: the cooperative control loop of a handheld RF  *)
(* cloner (debounced buttons, mode state machine, timer-gated replay and   *)
(* jam transmissions, periodic link check, one rendered frame per tick).   *)
(*                                                                         *)
(* One loop iteration is modelled as the steps check -> anim -> buttons    *)
(* -> mode -> delay, one action per step.  millis() is the variable clock; *)
(* it advances in the blocking parts of the code: the 100 ms listen and    *)
(* the 10 ms probe of checkRFModule, and the end of the tick (delay(30)    *)
(* plus the time the frame flush and a blocking send have taken).          *)
(***************************************************************************)
EXTENDS Integers, Sequences, FiniteSets, TLC

VARIABLES
    pc,                 \* position of the single control thread
    clock,              \* millis(): unsigned, wraps at ClockMod
    uptime,             \* observer: milliseconds since power-up, never wraps
    currentMode, menuSelection,
    rfModuleConnected, lastRFCheck,
    btnState,
    capturedSignal,
    isTransmitting, isJamming, lastTransmit, lastJam, transmitCount,
    animFrame, lastAnimUpdate,
    rx,                 \* the receiver's pending event (RCSwitch rfReceiver)
    radio,              \* which of enableReceive / enableTransmit have been called
    tick,               \* observer: what this loop iteration has done so far
    ulast,              \* observer: the timers' values on the unwrapped time axis
    obs,                \* observer: spacing of accepted edges and of sends
    env                 \* test harness: who drives the inputs, and until when

vars == <<pc, clock, uptime, currentMode, menuSelection, rfModuleConnected,
          lastRFCheck, btnState, capturedSignal, isTransmitting, isJamming,
          lastTransmit, lastJam, transmitCount, animFrame, lastAnimUpdate,
          rx, radio, tick, ulast, obs, env>>

progVars == <<currentMode, menuSelection, rfModuleConnected, lastRFCheck,
              btnState, capturedSignal, isTransmitting, isJamming,
              lastTransmit, lastJam, transmitCount, animFrame, lastAnimUpdate,
              radio>>

----------------------------------------------------------------------------
(* Bounds of the model *)

\* millis() is a 32-bit unsigned long on the target; TLC's integers are
\* 32-bit signed, so the model's clock wraps at 2^30.  Every interval of the
\* program is below 2^12, far from either modulus.
ClockMod == 1073741824

\* the model stops advancing time at this uptime (free-input specification)
MaxUptime == 2700

\* the model stops advancing time this long after the start of SpecWrap
MaxWrapRun == 600

\* the shortest loop iteration happens at most this often in a run
MaxShortTicks == 2

\* how long before the wrap SpecWrap starts
WrapLead == 400

\* the model stops advancing time at this uptime in the scripted scenario
MaxScenarioUptime == 4000

\* the "emulate" profile leaves the inputs free for this long
FreeWindow == 860

\* the model stops advancing time at this uptime in the "resume" profiles
MaxResumeUptime == 6800

----------------------------------------------------------------------------
(* Program constants *)

DEBOUNCE_DELAY == 200
RF_CHECK_INTERVAL == 3000
ANIM_SPEED == 120
TRANSMIT_INTERVAL == 500
JAM_INTERVAL == 50
menuItems == 3

\* animFrame = (animFrame + 1) % 1000
ANIM_WRAP == 1000

\* while(millis() - start < 100) in checkRFModule
LISTEN_MS == 100

\* delay(10) between driving and reading back the transmit pin
PROBE_MS == 10

\* delay(30) at the end of loop()
LOOP_DELAY == 30

\* setup(): delay(100) + delay(250) + bootAnimation (3 * delay(400) + delay(600))
BOOT_MS == 100 + 250 + 3 * 400 + 600

\* rfTransmitter.send(randomValue, 24)
JAM_BITS == 24

\* while(1) delay(1000) after a failed display.begin
HALT_DELAY == 1000

----------------------------------------------------------------------------
(* Inputs *)

\* duration of one loop iteration after the link check: delay(30) alone, or
\* delay(30) plus a slow frame flush or a blocking send
TickTimes == {100, 200}

\* time into the 100 ms listen at which a pending event is seen
ListenHitTimes == {40}

\* events the receiver can deliver: value 0 is noise
NoEvent == [available |-> FALSE, value |-> 0, bitLength |-> 0, protocol |-> 0, delay |-> 0]

RxEvents ==
    { [available |-> TRUE, value |-> 0,        bitLength |-> 0,  protocol |-> 1, delay |-> 0],
      [available |-> TRUE, value |-> 11259154, bitLength |-> 24, protocol |-> 1, delay |-> 350],
      [available |-> TRUE, value |-> 5592405,  bitLength |-> 12, protocol |-> 2, delay |-> 650] }

\* random(1, 16777215) returns a value in [1, 16777214]
JamValues == {1, 16777214}

Buttons == {"up", "down", "select", "back"}

\* most buttons the environment holds down at once in the profiles "free"
\* and "wrap"
MaxHeld == 2

\* one sample of the four active-low inputs, as "pressed" booleans
Samples == { s \in [Buttons -> BOOLEAN] : Cardinality({ b \in Buttons : s[b] }) <= MaxHeld }

----------------------------------------------------------------------------
(* Arithmetic of unsigned long *)

\* now - last in unsigned arithmetic
Sub(a, b) == (a - b + ClockMod) % ClockMod

Add(a, d) == (a + d) % ClockMod

----------------------------------------------------------------------------
(* Observer records *)

\* arguments of the send primitive: setProtocol, setPulseLength, send(value, bits)
NoArgs == [kind |-> "none", protocol |-> 0, pulseLength |-> 0, value |-> 0, bits |-> 0]

EmptyTick ==
    [steps |-> <<>>, probed |-> FALSE, polled |-> FALSE, sent |-> FALSE,
     jammed |-> FALSE, frame |-> "none", args |-> NoArgs,
     from |-> "none", suppressed |-> FALSE, pressed |-> {}, dispatched |-> {},
     diag |-> "none", checked |-> FALSE, animated |-> FALSE]

NoButtons == [b \in Buttons |-> FALSE]

\* the samples with no button or a single button pressed
OneButton == {NoButtons} \cup { [c \in Buttons |-> c = b] : b \in Buttons }

----------------------------------------------------------------------------
(* checkRFModule *)

\* The outcomes of one call when the receiver's pending event is r: an event
\* seen during the listen is consumed and means "connected"; otherwise the
\* transmit pin is driven high, read back after 10 ms and driven low.
checkRFModule(r) ==
    IF r.available
    THEN { [connected |-> TRUE, elapsed |-> h, probed |-> FALSE] : h \in ListenHitTimes }
    ELSE { [connected |-> txOk, elapsed |-> LISTEN_MS + PROBE_MS, probed |-> TRUE] :
             txOk \in BOOLEAN }

----------------------------------------------------------------------------
(* handleButtons *)

buttonRisingEdge(current, last) == current /\ ~last

\* a debounce window of half the length
DebouncingShort(now, lastPress) == Sub(now, lastPress) < 100

\* if(now - btnState.lastPress < DEBOUNCE_DELAY) return;
Debouncing(now, lastPress) == Sub(now, lastPress) < DEBOUNCE_DELAY

\* The part of the state the button handlers work on.
ModeState ==
    [mode |-> currentMode, sel |-> menuSelection, tx |-> isTransmitting,
     jam |-> isJamming, cnt |-> transmitCount, lastTx |-> lastTransmit,
     lastJam |-> lastJam, lastPress |-> btnState.lastPress]

OnUp(m, now) ==
    LET dec == m.sel - 1
        sel == IF m.mode = "MENU"
               THEN (IF dec < 0 THEN menuItems - 1 ELSE dec)
               ELSE m.sel
    IN [m EXCEPT !.sel = sel, !.lastPress = now]

\* Down that stops at the last item instead of wrapping to the first
OnDownSaturating(m, now) ==
    LET inc == m.sel + 1
        sel == IF m.mode = "MENU"
               THEN (IF inc >= menuItems THEN menuItems - 1 ELSE inc)
               ELSE m.sel
    IN [m EXCEPT !.sel = sel, !.lastPress = now]

OnDown(m, now) ==
    LET inc == m.sel + 1
        sel == IF m.mode = "MENU"
               THEN (IF inc >= menuItems THEN 0 ELSE inc)
               ELSE m.sel
    IN [m EXCEPT !.sel = sel, !.lastPress = now]

\* the cases 1 and 2 of the switch exchanged
ModeOfSelectionSwapped(sel, mode) ==
    CASE sel = 0 -> "READ"
      [] sel = 1 -> "JAM"
      [] sel = 2 -> "EMULATE"
      [] OTHER   -> mode

\* switch(menuSelection) of the Menu branch
ModeOfSelection(sel, mode) ==
    CASE sel = 0 -> "READ"
      [] sel = 1 -> "EMULATE"
      [] sel = 2 -> "JAM"
      [] OTHER   -> mode

\* an Emulate branch that toggles without resetting transmitCount
OnSelectKeepsCount(m, now, valid) ==
    LET n == CASE m.mode = "MENU" ->
                    [m EXCEPT !.mode = ModeOfSelection(m.sel, m.mode),
                              !.tx = FALSE, !.jam = FALSE, !.cnt = 0]
               [] m.mode = "EMULATE" ->
                    IF valid
                    THEN [m EXCEPT !.tx = ~m.tx, !.lastTx = 0]
                    ELSE m
               [] m.mode = "JAM" ->
                    [m EXCEPT !.jam = ~m.jam, !.lastJam = 0]
               [] OTHER -> m
    IN [n EXCEPT !.lastPress = now]

\* an Emulate branch that toggles without looking at capturedSignal.valid
OnSelectUnchecked(m, now, valid) ==
    LET n == CASE m.mode = "MENU" ->
                    [m EXCEPT !.mode = ModeOfSelection(m.sel, m.mode),
                              !.tx = FALSE, !.jam = FALSE, !.cnt = 0]
               [] m.mode = "EMULATE" ->
                    [m EXCEPT !.tx = ~m.tx, !.cnt = 0, !.lastTx = 0]
               [] m.mode = "JAM" ->
                    [m EXCEPT !.jam = ~m.jam, !.lastJam = 0]
               [] OTHER -> m
    IN [n EXCEPT !.lastPress = now]

OnSelect(m, now, valid) ==
    LET n == CASE m.mode = "MENU" ->
                    [m EXCEPT !.mode = ModeOfSelection(m.sel, m.mode),
                              !.tx = FALSE, !.jam = FALSE, !.cnt = 0]
               [] m.mode = "EMULATE" ->
                    IF valid
                    THEN [m EXCEPT !.tx = ~m.tx, !.cnt = 0, !.lastTx = 0]
                    ELSE m
               [] m.mode = "JAM" ->
                    [m EXCEPT !.jam = ~m.jam, !.lastJam = 0]
               [] OTHER -> m
    IN [n EXCEPT !.lastPress = now]

\* Back that forgets to stop the transmission
OnBackKeepsTransmitting(m, now) ==
    [m EXCEPT !.mode = "MENU", !.jam = FALSE, !.lastPress = now]

\* Back that only changes the mode
OnBackKeepsFlags(m, now) ==
    [m EXCEPT !.mode = "MENU", !.lastPress = now]

OnBack(m, now) ==
    [m EXCEPT !.mode = "MENU", !.tx = FALSE, !.jam = FALSE, !.lastPress = now]

\* the line Select prints when it refuses to start a replay (line 242)
SelectDiagnostic(e, mode, valid) ==
    IF e["select"] /\ mode = "EMULATE" /\ ~valid THEN "ERROR: No signal captured!"
    ELSE "none"

\* the edge checks with Back handled before Select
ApplyEdgesBackFirst(m, e, now, valid) ==
    LET m1 == IF e["up"]     THEN OnUp(m, now)              ELSE m
        m2 == IF e["down"]   THEN OnDown(m1, now)           ELSE m1
        m3 == IF e["back"]   THEN OnBack(m2, now)           ELSE m2
        m4 == IF e["select"] THEN OnSelect(m3, now, valid)  ELSE m3
    IN m4

\* The four edge checks in the order of the code, each on the state left by
\* the one before it.  e[b] says whether button b has a rising edge.
ApplyEdges(m, e, now, valid) ==
    LET m1 == IF e["up"]     THEN OnUp(m, now)              ELSE m
        m2 == IF e["down"]   THEN OnDown(m1, now)           ELSE m1
        m3 == IF e["select"] THEN OnSelect(m2, now, valid)  ELSE m2
        m4 == IF e["back"]   THEN OnBack(m3, now)           ELSE m3
    IN m4

\* btnState after readButtons() has stored sample s
readButtons(bs, s) ==
    [bs EXCEPT !.up = s["up"], !.down = s["down"],
               !.select = s["select"], !.back = s["back"]]

\* "Update last states" at the end of handleButtons
UpdateLast(bs) ==
    [bs EXCEPT !.upLast = bs.up, !.downLast = bs.down,
               !.selectLast = bs.select, !.backLast = bs.back]

\* the rising edges handleButtons sees in bs
Edges(bs) ==
    [b \in Buttons |->
        CASE b = "up"     -> buttonRisingEdge(bs.up, bs.upLast)
          [] b = "down"   -> buttonRisingEdge(bs.down, bs.downLast)
          [] b = "select" -> buttonRisingEdge(bs.select, bs.selectLast)
          [] b = "back"   -> buttonRisingEdge(bs.back, bs.backLast)]

\* the current sample held in bs, and its snapshot of the previous one
Current(bs) ==
    [b \in Buttons |->
        CASE b = "up" -> bs.up [] b = "down" -> bs.down
          [] b = "select" -> bs.select [] b = "back" -> bs.back]

Snapshot(bs) ==
    [b \in Buttons |->
        CASE b = "up" -> bs.upLast [] b = "down" -> bs.downLast
          [] b = "select" -> bs.selectLast [] b = "back" -> bs.backLast]

----------------------------------------------------------------------------
(* handleRFReception, transmitSignal, jamSignals *)

\* handleRFReception without the test for the noise value 0
CaptureAnyValue(sig, r, now) ==
    IF r.available
    THEN [value |-> r.value, bitLength |-> r.bitLength, protocol |-> r.protocol,
          pulseLength |-> r.delay, valid |-> TRUE, captureTime |-> now]
    ELSE sig

\* capturedSignal after handleRFReception has seen receiver state r at now
Capture(sig, r, now) ==
    IF r.available /\ r.value # 0
    THEN [value |-> r.value, bitLength |-> r.bitLength, protocol |-> r.protocol,
          pulseLength |-> r.delay, valid |-> TRUE, captureTime |-> now]
    ELSE sig

\* a replay gate that gives up when the last send is 3 s or more ago
TransmitDueUntilTimeout(now, last) ==
    Sub(now, last) >= TRANSMIT_INTERVAL /\ Sub(now, last) < 3000

\* the replay gate compared with the jam interval
TransmitDueJamInterval(now, last) == Sub(now, last) >= JAM_INTERVAL

\* if(now - lastTransmit >= TRANSMIT_INTERVAL)
TransmitDue(now, last) == Sub(now, last) >= TRANSMIT_INTERVAL

\* a jam gate that is always open
JamDueAlways(now, last) == TRUE

\* if(now - lastJam >= JAM_INTERVAL)
JamDue(now, last) == Sub(now, last) >= JAM_INTERVAL

\* int protocol = (animFrame % 3) + 1
JamProtocol(frame) == (frame % 3) + 1

\* a switch whose Read case lacks the test of rfModuleConnected
RadioAllowedReadUngated(mode, connected) == connected \/ mode = "READ"

\* a switch whose Emulate case lacks the test of rfModuleConnected
RadioAllowedEmulateUngated(mode, connected) == connected \/ mode = "EMULATE"

\* the branch of loop()'s switch that runs the radio action of mode
RadioAllowed(mode, connected) == connected

----------------------------------------------------------------------------
(* loop(): the order of its steps *)

\* a loop that handles the buttons before the link check
LoopOrderButtonsFirst == <<"buttons", "check", "anim", "mode", "delay">>

\* a loop that runs the link check after the mode's radio action
LoopOrderCheckLate == <<"anim", "buttons", "mode", "check", "delay">>

LoopOrder == <<"check", "anim", "buttons", "mode", "delay">>

FirstStep == LoopOrder[1]

NextStep(s) ==
    LET i == CHOOSE k \in 1..Len(LoopOrder) : LoopOrder[k] = s
    IN IF i = Len(LoopOrder) THEN LoopOrder[1] ELSE LoopOrder[i + 1]

----------------------------------------------------------------------------
(* Test harness.  env.profile names the driver of the inputs, env.stage its  *)
(* position in the script (-1: inputs are free), env.stopAt the uptime     *)
(* at which the model stops advancing time, env.short the number of          *)
(* shortest iterations so far.                                               *)
(*   "free"     every input free from power-up                               *)
(*   "scenario" the spec's end-to-end test: 0 Select (Menu -> Read),         *)
(*              1 the capture, 2 Back, 3 Down, 4 Select (-> Emulate),        *)
(*              5 Select (transmit on), 6 wait for the second send, 7 done   *)
(*   "emulate"  stages 0..4 of the scenario, then every input free           *)
(*   "wrap"     every input free, started shortly before the clock wraps     *)
(*   "resumeTx" stages 0..5 of the scenario, then stage 8: the first Select  *)
(*              or Back ends the run; the link is healthy until Emulate is   *)
(*              entered (stage 5) and free from then on                      *)
(*   "resumeJam" 10 Up, 11 Select (Menu -> Jam), 12 Select (jam on), then    *)
(*              stage 8; the link is free from power-up                      *)
(*   "jam"      stages 10 and 11, then every input free; the link is free    *)
(*              from power-up                                                *)

ScriptButton ==
    CASE env.stage = 0  -> "select"
      [] env.stage = 2  -> "back"
      [] env.stage = 3  -> "down"
      [] env.stage = 4  -> "select"
      [] env.stage = 5  -> "select"
      [] env.stage = 10 -> "up"
      [] env.stage = 11 -> "select"
      [] env.stage = 12 -> "select"
      [] OTHER          -> "none"

\* the stage in which the "resume" profiles wait for the link
Waiting == env.stage = 8

ScenarioEvent ==
    [available |-> TRUE, value |-> 11259154, bitLength |-> 24, protocol |-> 1, delay |-> 350]

Free == env.stage = -1

\* samples the environment may present to readButtons
ButtonInputs ==
    IF env.profile \in {"free", "wrap"} THEN Samples
    ELSE IF Free THEN OneButton
    ELSE IF Waiting THEN { s \in OneButton : ~s["up"] /\ ~s["down"] }
    ELSE { s \in Samples : \A b \in Buttons : s[b] => b = ScriptButton }

\* events the environment may deliver to the receiver
RxInputs ==
    IF Free THEN RxEvents
    ELSE IF env.stage = 1 THEN {ScenarioEvent} ELSE {}

\* outcomes of the link check the environment allows (a scripted link is healthy)
CheckInputs(r) ==
    IF Free \/ Waiting \/ env.profile \in {"resumeJam", "jam"}
            \/ (env.profile = "resumeTx" /\ env.stage = 5)
    THEN checkRFModule(r)
    ELSE { o \in checkRFModule(r) : o.connected }

\* durations of a loop iteration the environment allows; in the free part
\* of "emulate" the shortest iteration, delay(30) alone, happens at most
\* MaxShortTicks times
TickInputs ==
    IF env.profile \in {"emulate", "jam"}
    THEN IF Free /\ env.short < MaxShortTicks THEN {LOOP_DELAY, 200} ELSE {200}
    ELSE IF env.profile \in {"resumeTx", "resumeJam"} THEN {200}
    ELSE TickTimes

\* the harness after a handleButtons call at uptime u that dispatched the edges in d
EnvAfterButtons(d, u) ==
    IF Waiting
    THEN IF d # {} THEN [env EXCEPT !.stage = 7] ELSE env
    ELSE IF env.stage \in {0, 2, 3, 4, 5, 10, 11, 12} /\ d = {ScriptButton}
    THEN IF (env.profile = "emulate" /\ env.stage = 4)
              \/ (env.profile = "jam" /\ env.stage = 11)
         THEN [env EXCEPT !.stage = -1, !.stopAt = u + FreeWindow]
         ELSE IF (env.profile = "resumeTx" /\ env.stage = 5) \/ env.stage = 12
         THEN [env EXCEPT !.stage = 8]
         ELSE [env EXCEPT !.stage = @ + 1]
    ELSE env

----------------------------------------------------------------------------
(* Initial states *)

\* the globals as initialised at lines 63-105, before setup() runs
Globals ==
    /\ pc = "setup"
    /\ clock = 0
    /\ uptime = 0
    /\ currentMode = "MENU"
    /\ menuSelection = 0
    /\ rfModuleConnected = FALSE
    /\ lastRFCheck = 0
    /\ btnState = [up |-> FALSE, down |-> FALSE, select |-> FALSE, back |-> FALSE,
                   upLast |-> FALSE, downLast |-> FALSE, selectLast |-> FALSE,
                   backLast |-> FALSE, lastPress |-> 0]
    /\ capturedSignal = [value |-> 0, bitLength |-> 0, protocol |-> 0,
                         pulseLength |-> 0, valid |-> FALSE, captureTime |-> 0]
    /\ isTransmitting = FALSE
    /\ isJamming = FALSE
    /\ lastTransmit = 0
    /\ lastJam = 0
    /\ transmitCount = 0
    /\ animFrame = 0
    /\ lastAnimUpdate = 0
    /\ rx = NoEvent
    /\ radio = [receive |-> FALSE, transmit |-> FALSE]
    /\ tick = EmptyTick
    /\ ulast = [press |-> 0, check |-> 0, anim |-> 0, tx |-> 0, jam |-> 0]
    /\ obs = [lastAccept |-> -1, acceptGap |-> -1, lastSend |-> -1, sendGap |-> -1,
              sendGapReset |-> FALSE, gateReset |-> FALSE, nSends |-> 0]

Init ==
    /\ Globals
    /\ env = [profile |-> "free", stage |-> -1, stopAt |-> MaxUptime, short |-> 0]

\* the same power-up, with the environment following the scripted scenario
InitScenario ==
    /\ Globals
    /\ env = [profile |-> "scenario", stage |-> 0, stopAt |-> MaxScenarioUptime, short |-> 0]

\* the same power-up, scripted up to the entry into Emulate with a capture
InitEmulate ==
    /\ Globals
    /\ env = [profile |-> "emulate", stage |-> 0, stopAt |-> MaxScenarioUptime, short |-> 0]

\* the same power-up, scripted until a replay or a jam is switched on, then
\* left alone while the link comes and goes
InitResume ==
    /\ Globals
    /\ env \in { [profile |-> "resumeTx", stage |-> 0, stopAt |-> MaxResumeUptime, short |-> 0],
                 [profile |-> "resumeJam", stage |-> 10, stopAt |-> MaxResumeUptime, short |-> 0] }

\* the same power-up, scripted up to the entry into Jam
InitJam ==
    /\ Globals
    /\ env = [profile |-> "jam", stage |-> 10, stopAt |-> MaxScenarioUptime, short |-> 0]

\* A device that has captured the scenario's signal (Select, capture, Back),
\* moved the selection (Down once or twice) and then idled in Menu until
\* WrapLead ms before millis() wraps: idle Menu iterations change only the
\* link check's and the animation's variables.
InitWrap ==
    /\ pc = FirstStep
    /\ clock = ClockMod - WrapLead
    /\ uptime = ClockMod - WrapLead
    /\ currentMode = "MENU"
    /\ menuSelection \in {1, 2}
    /\ rfModuleConnected = TRUE
    /\ lastRFCheck = ClockMod - WrapLead - 2900
    /\ btnState = [up |-> FALSE, down |-> FALSE, select |-> FALSE, back |-> FALSE,
                   upLast |-> FALSE, downLast |-> FALSE, selectLast |-> FALSE,
                   backLast |-> FALSE, lastPress |-> 3060]
    /\ capturedSignal = [value |-> 11259154, bitLength |-> 24, protocol |-> 1,
                         pulseLength |-> 350, valid |-> TRUE, captureTime |-> 2260]
    /\ isTransmitting = FALSE
    /\ isJamming = FALSE
    /\ lastTransmit = 0
    /\ lastJam = 0
    /\ transmitCount = 0
    /\ animFrame = 7
    /\ lastAnimUpdate = ClockMod - WrapLead - 100
    /\ rx = NoEvent
    /\ radio = [receive |-> TRUE, transmit |-> TRUE]
    /\ tick = EmptyTick
    /\ ulast = [press |-> 3060, check |-> ClockMod - WrapLead - 2900,
                anim |-> ClockMod - WrapLead - 100, tx |-> 0, jam |-> 0]
    /\ obs = [lastAccept |-> 3060, acceptGap |-> 200, lastSend |-> -1, sendGap |-> -1,
              sendGapReset |-> FALSE, gateReset |-> FALSE, nSends |-> 0]
    /\ env = [profile |-> "wrap", stage |-> -1,
              stopAt |-> ClockMod - WrapLead + MaxWrapRun, short |-> 0]

----------------------------------------------------------------------------
(* setup() *)

\* a setup() that goes on into loop() when display.begin fails
SetupIgnoresDisplay ==
    /\ pc = "setup"
    /\ \E s \in ButtonInputs, displayOk \in BOOLEAN, r \in {NoEvent, ScenarioEvent} :
         LET bs == UpdateLast(readButtons(btnState, s))
         IN \E o \in CheckInputs(r) :
                 /\ pc' = FirstStep
                 /\ btnState' = bs
                 /\ radio' = [receive |-> displayOk, transmit |-> displayOk]
                 /\ rfModuleConnected' = o.connected
                 /\ rx' = NoEvent
                 /\ clock' = BOOT_MS + o.elapsed
                 /\ uptime' = BOOT_MS + o.elapsed
                 /\ currentMode' = "MENU"
    /\ UNCHANGED <<menuSelection, lastRFCheck, capturedSignal, isTransmitting,
                   isJamming, lastTransmit, lastJam, transmitCount, animFrame,
                   lastAnimUpdate, tick, ulast, obs, env>>

Setup ==
    /\ pc = "setup"
    /\ \E s \in ButtonInputs, displayOk \in BOOLEAN, r \in {NoEvent, ScenarioEvent} :
         LET bs == UpdateLast(readButtons(btnState, s))
         IN IF ~displayOk
            THEN \* while(1) delay(1000);
                 /\ pc' = "halted"
                 /\ btnState' = bs
                 /\ clock' = 350
                 /\ uptime' = 350
                 /\ UNCHANGED <<currentMode, rfModuleConnected, rx, radio>>
            ELSE \E o \in CheckInputs(r) :
                 /\ pc' = FirstStep
                 /\ btnState' = bs
                 /\ radio' = [receive |-> TRUE, transmit |-> TRUE]
                 /\ rfModuleConnected' = o.connected
                 /\ rx' = NoEvent
                 /\ clock' = BOOT_MS + o.elapsed
                 /\ uptime' = BOOT_MS + o.elapsed
                 /\ currentMode' = "MENU"
    /\ UNCHANGED <<menuSelection, lastRFCheck, capturedSignal, isTransmitting,
                   isJamming, lastTransmit, lastJam, transmitCount, animFrame,
                   lastAnimUpdate, tick, ulast, obs, env>>

\* the idle loop after a failed display.begin: while(1) delay(1000);
Halted ==
    /\ pc = "halted"
    /\ uptime + HALT_DELAY <= env.stopAt
    /\ clock' = Add(clock, HALT_DELAY)
    /\ uptime' = uptime + HALT_DELAY
    /\ UNCHANGED <<pc, progVars, rx, tick, ulast, obs, env>>

----------------------------------------------------------------------------
(* The receiver's interrupt handler stores a decoded event, replacing a      *)
(* pending one.  It can run at any time; the program reads the receiver only *)
(* in a due link check and in Read's mode step, and what it reads is the     *)
(* last event delivered before the read, so the model delivers an event      *)
(* right before one of these reads.                                          *)

ReceiverReadNext ==
    \/ pc = "check" /\ Sub(clock, lastRFCheck) > RF_CHECK_INTERVAL
    \/ pc = "mode" /\ currentMode = "READ" /\ RadioAllowed(currentMode, rfModuleConnected)

RxEvent ==
    /\ radio.receive
    /\ ReceiverReadNext
    /\ \E r \in RxInputs : rx' = r
    /\ rx' # rx
    /\ UNCHANGED <<pc, clock, uptime, progVars, tick, ulast, obs, env>>

----------------------------------------------------------------------------
(* loop(), step 1: periodic link check *)

LinkCheck ==
    /\ pc = "check"
    /\ pc' = NextStep("check")
    /\ IF Sub(clock, lastRFCheck) > RF_CHECK_INTERVAL
       THEN \E o \in CheckInputs(rx) :
              /\ rfModuleConnected' = o.connected
              /\ rx' = NoEvent
              /\ clock' = Add(clock, o.elapsed)
              /\ uptime' = uptime + o.elapsed
              /\ lastRFCheck' = Add(clock, o.elapsed)
              /\ ulast' = [ulast EXCEPT !.check = uptime + o.elapsed]
              /\ tick' = [tick EXCEPT !.steps = Append(@, "check"),
                                      !.checked = TRUE, !.probed = o.probed]
       ELSE /\ tick' = [tick EXCEPT !.steps = Append(@, "check")]
            /\ UNCHANGED <<rfModuleConnected, rx, clock, uptime, lastRFCheck, ulast>>
    /\ UNCHANGED <<currentMode, menuSelection, btnState, capturedSignal,
                   isTransmitting, isJamming, lastTransmit, lastJam, transmitCount,
                   animFrame, lastAnimUpdate, radio, obs, env>>

(* loop(), step 2: animation clock *)

AnimTick ==
    /\ pc = "anim"
    /\ pc' = NextStep("anim")
    /\ IF Sub(clock, lastAnimUpdate) > ANIM_SPEED
       THEN /\ animFrame' = (animFrame + 1) % ANIM_WRAP
            /\ lastAnimUpdate' = clock
            /\ ulast' = [ulast EXCEPT !.anim = uptime]
       ELSE UNCHANGED <<animFrame, lastAnimUpdate, ulast>>
    /\ tick' = [tick EXCEPT !.steps = Append(@, "anim"),
                            !.animated = Sub(clock, lastAnimUpdate) > ANIM_SPEED]
    /\ UNCHANGED <<clock, uptime, currentMode, menuSelection, rfModuleConnected,
                   lastRFCheck, btnState, capturedSignal, isTransmitting, isJamming,
                   lastTransmit, lastJam, transmitCount, rx, radio, obs, env>>

(* loop(), step 3: handleButtons *)

HandleButtons ==
    /\ pc = "buttons"
    /\ pc' = NextStep("buttons")
    /\ \E s \in ButtonInputs :
         LET now     == clock
             bs      == readButtons(btnState, s)
             pressed == { b \in Buttons : s[b] /\ ~Current(btnState)[b] }
         IN IF Debouncing(now, btnState.lastPress)
            THEN /\ btnState' = bs
                 /\ tick' = [tick EXCEPT !.steps = Append(@, "buttons"),
                                         !.from = currentMode,
                                         !.suppressed = TRUE, !.pressed = pressed]
                 /\ UNCHANGED <<currentMode, menuSelection, isTransmitting, isJamming,
                                transmitCount, lastTransmit, lastJam, ulast, obs, env>>
            ELSE LET e    == Edges(bs)
                     d    == { b \in Buttons : e[b] }
                     m    == ApplyEdges(ModeState, e, now, capturedSignal.valid)
                     txR  == e["select"] /\ currentMode = "EMULATE" /\ capturedSignal.valid
                     jamR == e["select"] /\ currentMode = "JAM"
                 IN /\ btnState' = UpdateLast([bs EXCEPT !.lastPress = m.lastPress])
                    /\ currentMode' = m.mode
                    /\ menuSelection' = m.sel
                    /\ isTransmitting' = m.tx
                    /\ isJamming' = m.jam
                    /\ transmitCount' = m.cnt
                    /\ lastTransmit' = m.lastTx
                    /\ lastJam' = m.lastJam
                    /\ tick' = [tick EXCEPT !.steps = Append(@, "buttons"),
                                            !.from = currentMode,
                                            !.pressed = pressed, !.dispatched = d,
                                            !.diag = SelectDiagnostic(e, currentMode,
                                                                      capturedSignal.valid)]
                    /\ ulast' = [ulast EXCEPT
                                   !.press = IF d # {} THEN uptime ELSE @,
                                   !.tx    = IF txR THEN 0 ELSE @,
                                   !.jam   = IF jamR THEN 0 ELSE @]
                    /\ obs' = [obs EXCEPT
                                 !.lastAccept = IF d # {} THEN uptime ELSE @,
                                 !.acceptGap  = IF d # {} /\ obs.lastAccept # -1
                                                THEN uptime - obs.lastAccept ELSE @,
                                 !.gateReset  = @ \/ txR]
                    /\ env' = EnvAfterButtons(d, uptime)
    /\ UNCHANGED <<clock, uptime, rfModuleConnected, lastRFCheck, capturedSignal,
                   animFrame, lastAnimUpdate, rx, radio>>

(* loop(), step 4: the switch on currentMode, with the mode's radio action   *)
(* and its frame                                                             *)

\* whether the case of currentMode calls the mode's radio function
\* (handleRFReception, transmitSignal, jamSignals)
RadioCalled ==
    CASE currentMode = "READ"    -> RadioAllowed(currentMode, rfModuleConnected)
      [] currentMode = "EMULATE" -> RadioAllowed(currentMode, rfModuleConnected)
                                    /\ isTransmitting
      [] currentMode = "JAM"     -> RadioAllowed(currentMode, rfModuleConnected)
                                    /\ isJamming
      [] OTHER                   -> FALSE

\* what the switch does, in its order: enter the case of currentMode, call
\* the radio function if the case does, draw one frame
ModeSteps ==
    <<"mode">> \o (IF RadioCalled THEN <<"radio">> ELSE <<>>) \o <<"render">>

\* the observer's record of one more replay send at uptime u
NoteSend(o, u) ==
    [o EXCEPT !.lastSend = u,
              !.sendGap = IF o.lastSend # -1 THEN u - o.lastSend ELSE -1,
              !.sendGapReset = o.gateReset,
              !.gateReset = FALSE,
              !.nSends = @ + 1]

ModeStep ==
    /\ pc = "mode"
    /\ pc' = NextStep("mode")
    /\ CASE currentMode = "MENU" ->
              /\ tick' = [tick EXCEPT !.steps = @ \o ModeSteps, !.frame = "menu"]
              /\ UNCHANGED <<capturedSignal, rx, transmitCount, lastTransmit, lastJam,
                             ulast, obs, env>>
         [] currentMode = "READ" ->
              IF ~RadioAllowed(currentMode, rfModuleConnected)
              THEN /\ tick' = [tick EXCEPT !.steps = @ \o ModeSteps, !.frame = "warning"]
                   /\ UNCHANGED <<capturedSignal, rx, transmitCount, lastTransmit, lastJam,
                                  ulast, obs, env>>
              ELSE \* handleRFReception(); drawReadMode();
                   /\ capturedSignal' = Capture(capturedSignal, rx, clock)
                   /\ rx' = IF rx.available THEN NoEvent ELSE rx
                   /\ tick' = [tick EXCEPT !.steps = @ \o ModeSteps, !.frame = "read",
                                           !.polled = TRUE]
                   /\ env' = IF env.stage = 1 /\ rx.available /\ rx.value # 0
                             THEN [env EXCEPT !.stage = 2] ELSE env
                   /\ UNCHANGED <<transmitCount, lastTransmit, lastJam, ulast, obs>>
         [] currentMode = "EMULATE" ->
              IF ~RadioAllowed(currentMode, rfModuleConnected)
              THEN /\ tick' = [tick EXCEPT !.steps = @ \o ModeSteps, !.frame = "warning"]
                   /\ UNCHANGED <<capturedSignal, rx, transmitCount, lastTransmit, lastJam,
                                  ulast, obs, env>>
              ELSE \* if(isTransmitting) transmitSignal(); drawEmulateMode();
                   IF isTransmitting /\ TransmitDue(clock, lastTransmit)
                                     /\ capturedSignal.valid
                   THEN /\ transmitCount' = transmitCount + 1
                        /\ lastTransmit' = clock
                        /\ ulast' = [ulast EXCEPT !.tx = uptime]
                        /\ obs' = NoteSend(obs, uptime)
                        /\ tick' = [tick EXCEPT
                                      !.steps = @ \o ModeSteps, !.frame = "emulate",
                                      !.sent = TRUE,
                                      !.args = [kind |-> "replay",
                                                protocol |-> capturedSignal.protocol,
                                                pulseLength |-> capturedSignal.pulseLength,
                                                value |-> capturedSignal.value,
                                                bits |-> capturedSignal.bitLength]]
                        /\ env' = IF env.stage = 6 /\ obs.nSends >= 1
                                  THEN [env EXCEPT !.stage = 7] ELSE env
                        /\ UNCHANGED <<capturedSignal, rx, lastJam>>
                   ELSE /\ tick' = [tick EXCEPT !.steps = @ \o ModeSteps,
                                                !.frame = "emulate"]
                        /\ UNCHANGED <<capturedSignal, rx, transmitCount, lastTransmit,
                                       lastJam, ulast, obs, env>>
         [] currentMode = "JAM" ->
              IF ~RadioAllowed(currentMode, rfModuleConnected)
              THEN /\ tick' = [tick EXCEPT !.steps = @ \o ModeSteps, !.frame = "warning"]
                   /\ UNCHANGED <<capturedSignal, rx, transmitCount, lastTransmit, lastJam,
                                  ulast, obs, env>>
              ELSE \* if(isJamming) jamSignals(); drawJamMode();
                   IF isJamming /\ JamDue(clock, lastJam)
                   THEN \E v \in JamValues :
                        /\ lastJam' = clock
                        /\ ulast' = [ulast EXCEPT !.jam = uptime]
                        /\ tick' = [tick EXCEPT
                                      !.steps = @ \o ModeSteps, !.frame = "jam",
                                      !.jammed = TRUE,
                                      !.args = [kind |-> "jam",
                                                protocol |-> JamProtocol(animFrame),
                                                pulseLength |-> 0,
                                                value |-> v, bits |-> JAM_BITS]]
                        /\ UNCHANGED <<capturedSignal, rx, transmitCount, lastTransmit,
                                       obs, env>>
                   ELSE /\ tick' = [tick EXCEPT !.steps = @ \o ModeSteps,
                                                !.frame = "jam"]
                        /\ UNCHANGED <<capturedSignal, rx, transmitCount, lastTransmit,
                                       lastJam, ulast, obs, env>>
    /\ UNCHANGED <<clock, uptime, currentMode, menuSelection, rfModuleConnected,
                   lastRFCheck, btnState, isTransmitting, isJamming, animFrame,
                   lastAnimUpdate, radio>>

(* loop(), step 5: delay(30); the iteration ends *)

Delay ==
    /\ pc = "delay"
    /\ pc' = NextStep("delay")
    /\ env.stage # 7
    /\ \E d \in TickInputs :
         /\ uptime + d <= env.stopAt
         /\ clock' = Add(clock, d)
         /\ uptime' = uptime + d
         /\ env' = IF d = LOOP_DELAY THEN [env EXCEPT !.short = @ + 1] ELSE env
    /\ tick' = EmptyTick
    /\ UNCHANGED <<progVars, rx, ulast, obs>>

----------------------------------------------------------------------------
(* Specifications *)

Next ==
    \/ Setup
    \/ Halted
    \/ RxEvent
    \/ LinkCheck
    \/ AnimTick
    \/ HandleButtons
    \/ ModeStep
    \/ Delay

\* the iterations of loop(), without setup()
NextLoop ==
    \/ RxEvent
    \/ LinkCheck
    \/ AnimTick
    \/ HandleButtons
    \/ ModeStep
    \/ Delay

\* a long-running device shortly before the clock wraps, free inputs
SpecWrap == InitWrap /\ [][NextLoop]_vars

\* power-up with free inputs
Spec == Init /\ [][Next]_vars

\* power-up with the inputs of the scripted scenario
SpecScenario == InitScenario /\ [][Next]_vars

\* power-up, scripted into Emulate with a capture, then free inputs
SpecEmulate == InitEmulate /\ [][Next]_vars

\* power-up, a replay or a jam switched on, then only the link changes
SpecResume == InitResume /\ [][Next]_vars

\* power-up, scripted into Jam, then free inputs
SpecJam == InitJam /\ [][Next]_vars

TypeOK ==
    /\ pc \in {"setup", "halted", "check", "anim", "buttons", "mode", "delay"}
    /\ clock \in 0..(ClockMod - 1)
    /\ currentMode \in {"MENU", "READ", "EMULATE", "JAM"}
    /\ menuSelection \in 0..(menuItems - 1)

----------------------------------------------------------------------------
(* Properties *)

\* handleButtons has run in this iteration
ButtonsDone == \E i \in 1..Len(tick.steps) : tick.steps[i] = "buttons"

\* the mode step has run in this iteration
ModeDone == \E i \in 1..Len(tick.steps) : tick.steps[i] = "mode"

\* position of step s in this iteration, 0 if it has not run
StepIndex(s) ==
    IF \E i \in 1..Len(tick.steps) : tick.steps[i] = s
    THEN CHOOSE i \in 1..Len(tick.steps) : tick.steps[i] = s
    ELSE 0

C2_DebounceComplete ==
    (ButtonsDone /\ ~tick.suppressed) => tick.pressed \subseteq tick.dispatched

\* C3: after every handleButtons call the snapshot of the previous sample
\* equals the current sample, and only presses that begin in the call's own
\* sample are dispatched (a press begun inside the window is never
\* dispatched later).
C3_SnapshotEveryCall ==
    ButtonsDone =>
        /\ Snapshot(btnState) = Current(btnState)
        /\ tick.dispatched \subseteq tick.pressed

\* C4 as claimed: any two replay sends are at least 500 ms apart, also
\* across a Select that toggles the transmission off and on again.
C4_SendSpacingAlways ==
    obs.sendGap # -1 => obs.sendGap >= 500

\* transmitCount goes up by one in a step that sends, and changes in no
\* other way than that or a reset to 0
CountPerSend ==
    /\ (tick'.sent /\ ~tick.sent) => transmitCount' = transmitCount + 1
    /\ transmitCount' # transmitCount =>
          \/ tick'.sent /\ ~tick.sent /\ transmitCount' = transmitCount + 1
          \/ transmitCount' = 0

\* C4 amended: two consecutive replay sends with no Select-reset of
\* lastTransmit between them are at least 500 ms apart, and transmitCount is
\* incremented exactly once per send and by nothing else.
C4_SendSpacingGated ==
    /\ []((obs.sendGap # -1 /\ ~obs.sendGapReset) => obs.sendGap >= 500)
    /\ [][CountPerSend]_vars

\* the second send of an uninterrupted transmission
C4_Witness ==
    /\ tick.sent
    /\ obs.sendGap >= 500
    /\ ~obs.sendGapReset
    /\ transmitCount = 2

\* C5: each interval comparison decides as it would on a clock that never
\* wraps (uptime against the timer's value on the unwrapped axis; a timer
\* reset to 0 stands for time 0).
C5_WrapSafe ==
    /\ pc = "check" =>
          ((Sub(clock, lastRFCheck) > 3000) <=> (uptime - ulast.check > 3000))
    /\ pc = "anim" =>
          ((Sub(clock, lastAnimUpdate) > 120) <=> (uptime - ulast.anim > 120))
    /\ pc = "buttons" =>
          ((Sub(clock, btnState.lastPress) < 200) <=> (uptime - ulast.press < 200))
    /\ (pc = "mode" /\ currentMode = "EMULATE" /\ rfModuleConnected /\ isTransmitting) =>
          ((Sub(clock, lastTransmit) >= 500) <=> (uptime - ulast.tx >= 500))
    /\ (pc = "mode" /\ currentMode = "JAM" /\ rfModuleConnected /\ isJamming) =>
          ((Sub(clock, lastJam) >= 50) <=> (uptime - ulast.jam >= 50))

\* C6: a mode step of Read, Emulate or Jam with rfModuleConnected false
\* polls nothing, sends nothing, renders the warning and leaves the capture,
\* the count, both gate timers and the pending event alone.
C6_LinkGated ==
    [][(pc = "mode" /\ pc' # "mode" /\ ~rfModuleConnected /\ currentMode # "MENU") =>
          /\ tick'.frame = "warning"
          /\ ~tick'.polled /\ ~tick'.sent /\ ~tick'.jammed
          /\ UNCHANGED <<capturedSignal, transmitCount, lastTransmit, lastJam, rx>>]_vars

\* the warning replaced a replay that was switched on
C6_Witness ==
    /\ tick.frame = "warning"
    /\ currentMode = "EMULATE"
    /\ isTransmitting
    /\ Sub(clock, lastTransmit) >= 500

\* C7 as claimed: no iteration both probes the transmit line and sends.
C7_NeverSameTick ==
    ~(tick.probed /\ (tick.sent \/ tick.jammed))

\* C7 amended: the probe and a send never overlap; when one iteration does
\* both, the probe (which leaves the line low) has finished before the
\* mode step sends.
C7_ProbeBeforeSend ==
    (tick.probed /\ (tick.sent \/ tick.jammed)) =>
        /\ StepIndex("check") >= 1
        /\ StepIndex("check") < StepIndex("mode")

\* an iteration that probed and then sent
C7_Witness ==
    /\ tick.probed
    /\ tick.sent

\* C8: when handleRFReception finds an event, value 0 changes no field of
\* capturedSignal, a nonzero value overwrites all six fields and sets valid;
\* the event is consumed either way; valid never returns to false.
C8_CaptureValidity ==
    /\ [][(pc = "mode" /\ tick'.polled /\ ~tick.polled /\ rx.available) =>
            /\ rx.value = 0 => capturedSignal' = capturedSignal
            /\ rx.value # 0 =>
                 capturedSignal' = [value |-> rx.value, bitLength |-> rx.bitLength,
                                    protocol |-> rx.protocol, pulseLength |-> rx.delay,
                                    valid |-> TRUE, captureTime |-> clock]
            /\ ~rx'.available]_vars
    /\ [][capturedSignal.valid => capturedSignal'.valid]_vars

\* a second capture has replaced the first one, timestamp included
C8_Witness ==
    /\ tick.polled
    /\ capturedSignal.valid
    /\ capturedSignal.value = 5592405
    /\ capturedSignal.captureTime = clock
    /\ capturedSignal.captureTime > 2260

\* C9: Back ends in Menu with both flags false, the flags are false
\* whenever the mode is Menu, and a call that goes from Menu into a mode
\* leaves both flags false and transmitCount 0.
C9_ModeExitResets ==
    /\ currentMode = "MENU" => (~isTransmitting /\ ~isJamming)
    /\ (ButtonsDone /\ "back" \in tick.dispatched) =>
          (currentMode = "MENU" /\ ~isTransmitting /\ ~isJamming)
    /\ (ButtonsDone /\ ~ModeDone /\ tick.from = "MENU" /\ currentMode # "MENU") =>
          (~isTransmitting /\ ~isJamming /\ transmitCount = 0)

\* Emulate entered again after a transmission that Back had ended
C9_Witness ==
    /\ ButtonsDone
    /\ tick.from = "MENU"
    /\ currentMode = "EMULATE"
    /\ obs.nSends >= 1
    /\ transmitCount = 0

ScenarioArgs ==
    [kind |-> "replay", protocol |-> 1, pulseLength |-> 350, value |-> 11259154, bits |-> 24]

\* C10: the scripted scenario; 11259154 = 0xABCD12.
C10_Scenario ==
    /\ env.stage = 0 => (currentMode = "MENU" /\ menuSelection = 0)
    /\ env.stage = 1 => (currentMode = "READ" /\ ~capturedSignal.valid)
    /\ env.stage >= 2 =>
          /\ capturedSignal.valid
          /\ capturedSignal.value = 11259154
          /\ capturedSignal.bitLength = 24
          /\ capturedSignal.protocol = 1
          /\ capturedSignal.pulseLength = 350
    /\ env.stage = 2 => currentMode = "READ"
    /\ env.stage = 3 => (currentMode = "MENU" /\ menuSelection = 0)
    /\ env.stage = 4 => (currentMode = "MENU" /\ menuSelection = 1)
    /\ env.stage = 5 => (currentMode = "EMULATE" /\ ~isTransmitting /\ obs.nSends = 0)
    /\ env.stage = 6 =>
          /\ currentMode = "EMULATE" /\ isTransmitting
          /\ ModeDone => (obs.nSends = 1 /\ transmitCount = 1
                          /\ uptime - obs.lastSend < 500)
          /\ (ModeDone /\ "select" \in tick.dispatched) =>
                (tick.sent /\ tick.args = ScenarioArgs)
    /\ env.stage = 7 =>
          /\ obs.nSends = 2 /\ transmitCount = 2
          /\ obs.sendGap >= 500
          /\ tick.sent /\ tick.args = ScenarioArgs

\* the scenario has run to its end
C10_Witness == env.stage = 7

\* C11 as claimed: a Select accepted in Emulate without a valid capture
\* leaves every variable of the program as it was, the debounce timestamp
\* included (the stored sample and its snapshot follow the buttons).
C11_NothingChanges ==
    [][(pc = "buttons" /\ currentMode = "EMULATE" /\ ~capturedSignal.valid
        /\ tick'.dispatched = {"select"}) =>
          /\ UNCHANGED <<currentMode, menuSelection, isTransmitting, isJamming,
                         transmitCount, lastTransmit, lastJam, capturedSignal,
                         rfModuleConnected, lastRFCheck, animFrame, lastAnimUpdate>>
          /\ btnState'.lastPress = btnState.lastPress]_vars

\* C11 amended: a Select accepted in Emulate without a valid capture (alone
\* or together with Up or Down) changes nothing of the mode, transmit,
\* capture, link and animation state and prints the diagnostic; of the
\* button state it stores the sample, updates the snapshot and stamps
\* lastPress = now, which opens a debounce window.
C11_OnlyDebounceStamp ==
    [][(pc = "buttons" /\ currentMode = "EMULATE" /\ ~capturedSignal.valid
        /\ "select" \in tick'.dispatched /\ "back" \notin tick'.dispatched) =>
          /\ UNCHANGED <<currentMode, menuSelection, isTransmitting, isJamming,
                         transmitCount, lastTransmit, lastJam, capturedSignal,
                         rfModuleConnected, lastRFCheck, animFrame, lastAnimUpdate,
                         clock, rx>>
          /\ tick'.diag = "ERROR: No signal captured!"
          /\ btnState'.lastPress = clock
          /\ Snapshot(btnState') = Current(btnState')]_vars

\* Select has just been refused in Emulate
C11_Witness ==
    /\ ButtonsDone
    /\ tick.from = "EMULATE"
    /\ "select" \in tick.dispatched
    /\ tick.diag = "ERROR: No signal captured!"
    /\ currentMode = "EMULATE"
    /\ ~capturedSignal.valid
    /\ ~isTransmitting
    /\ btnState.lastPress = clock

\* C12: isTransmitting and isJamming go from true to false only in a
\* handleButtons call that dispatches Select or Back; and a mode step of
\* Emulate (Jam) with the flag set, a healthy link and 500 ms (50 ms) or
\* more since the last send does send, however long the link was unhealthy.
C12_StopOnlyOnInput ==
    /\ [][(isTransmitting /\ ~isTransmitting') =>
            (pc = "buttons" /\ tick'.dispatched \cap {"select", "back"} # {})]_vars
    /\ [][(isJamming /\ ~isJamming') =>
            (pc = "buttons" /\ tick'.dispatched \cap {"select", "back"} # {})]_vars
    /\ [][(pc = "mode" /\ pc' # "mode" /\ currentMode = "EMULATE" /\ isTransmitting
           /\ rfModuleConnected /\ capturedSignal.valid
           /\ uptime - ulast.tx >= 500) => tick'.sent]_vars
    /\ [][(pc = "mode" /\ pc' # "mode" /\ currentMode = "JAM" /\ isJamming
           /\ rfModuleConnected /\ uptime - ulast.jam >= 50) => tick'.jammed]_vars

\* the first send of a replay that was switched on 3 s or more ago, with no
\* button edge since: the link was unhealthy all that time and has recovered
C12_Witness ==
    /\ tick.sent
    /\ isTransmitting
    /\ obs.nSends = 1
    /\ uptime - obs.lastAccept >= 3000

\* C13: menuSelection is 0, 1 or 2 in every state; a handleButtons call in
\* Menu that dispatches Up (without Down) takes 0 to 2 and otherwise
\* decrements, one that dispatches Down (without Up) takes 2 to 0 and
\* otherwise increments, one that dispatches both applies Up then Down;
\* in Read, Emulate and Jam, and in every other step, it does not change.
C13_MenuSelection ==
    /\ [](menuSelection \in {0, 1, 2})
    /\ [][LET d == tick'.dispatched
          IN IF pc = "buttons" /\ currentMode = "MENU"
             THEN /\ ("up" \in d /\ "down" \notin d) =>
                       menuSelection' = IF menuSelection = 0 THEN 2 ELSE menuSelection - 1
                  /\ ("down" \in d /\ "up" \notin d) =>
                       menuSelection' = IF menuSelection = 2 THEN 0 ELSE menuSelection + 1
                  /\ ("up" \in d <=> "down" \in d) => menuSelection' = menuSelection
             ELSE menuSelection' = menuSelection]_vars

\* Down has wrapped the selection from the last item to the first
C13_Witness ==
    /\ ButtonsDone
    /\ tick.from = "MENU"
    /\ tick.dispatched = {"down"}
    /\ menuSelection = 0
    /\ currentMode = "MENU"

\* the variables of the mode state machine and the two gate timers
ModeVars ==
    <<currentMode, menuSelection, isTransmitting, isJamming, transmitCount,
      lastTransmit, lastJam>>

\* C14: currentMode is Menu at power-up and changes only in a handleButtons
\* call that dispatches an edge; a call that dispatches one edge does
\* exactly this to the mode state: Select in Menu enters Read, Emulate, Jam
\* for selection 0, 1, 2 with both flags false and transmitCount 0; Back
\* enters Menu with both flags false; Select in Emulate with a valid capture
\* toggles isTransmitting and zeroes transmitCount and lastTransmit; Select
\* in Jam toggles isJamming and zeroes lastJam; Select in Read, Up and Down
\* outside Menu, and a call without an edge change nothing of it.
C14_ModeTransitions ==
    /\ [](pc = "setup" => currentMode = "MENU")
    /\ [][currentMode' # currentMode => (pc = "buttons" /\ tick'.dispatched # {})]_vars
    /\ [][pc = "buttons" =>
          LET d == tick'.dispatched
          IN /\ d = {} => UNCHANGED ModeVars
             /\ (d = {"select"} /\ currentMode = "MENU") =>
                   /\ currentMode' = CASE menuSelection = 0 -> "READ"
                                       [] menuSelection = 1 -> "EMULATE"
                                       [] menuSelection = 2 -> "JAM"
                   /\ ~isTransmitting' /\ ~isJamming' /\ transmitCount' = 0
                   /\ UNCHANGED <<menuSelection, lastTransmit, lastJam>>
             /\ d = {"back"} =>
                   /\ currentMode' = "MENU"
                   /\ ~isTransmitting' /\ ~isJamming'
                   /\ UNCHANGED <<menuSelection, transmitCount, lastTransmit, lastJam>>
             /\ (d = {"select"} /\ currentMode = "EMULATE" /\ capturedSignal.valid) =>
                   /\ isTransmitting' = ~isTransmitting
                   /\ transmitCount' = 0 /\ lastTransmit' = 0
                   /\ UNCHANGED <<currentMode, menuSelection, isJamming, lastJam>>
             /\ (d = {"select"} /\ currentMode = "JAM") =>
                   /\ isJamming' = ~isJamming
                   /\ lastJam' = 0
                   /\ UNCHANGED <<currentMode, menuSelection, isTransmitting,
                                  transmitCount, lastTransmit>>
             /\ (d = {"select"} /\ currentMode = "READ") => UNCHANGED ModeVars
             /\ (d # {} /\ d \subseteq {"up", "down"} /\ currentMode # "MENU") =>
                   UNCHANGED ModeVars]_vars

\* Select has switched a replay on again after it had sent and been switched
\* off: transmitCount and lastTransmit are back at 0
C14_Witness ==
    /\ ButtonsDone /\ ~ModeDone
    /\ tick.from = "EMULATE"
    /\ tick.dispatched = {"select"}
    /\ isTransmitting
    /\ obs.nSends >= 1
    /\ transmitCount = 0
    /\ lastTransmit = 0

\* C15: a step changes capturedSignal (any of its six fields) only if it is
\* the mode step of an iteration in which currentMode is Read and
\* rfModuleConnected is true; setup, the link check, the animation update,
\* handleButtons, the mode steps of Menu, Emulate and Jam (sends and frames
\* included) and the end of the iteration leave it as it is.
C15_CaptureFrame ==
    [][capturedSignal' # capturedSignal =>
          /\ pc = "mode"
          /\ currentMode = "READ"
          /\ rfModuleConnected
          /\ tick'.polled
          /\ tick'.frame = "read"]_vars

\* a capture that has survived button handling, link checks and a replay
\* is overwritten by a new one in Read
C15_Witness ==
    /\ tick.polled
    /\ currentMode = "READ"
    /\ obs.nSends >= 1
    /\ capturedSignal.value = 5592405
    /\ capturedSignal.captureTime = clock

\* C16: a mode step sends a jam burst only if currentMode is Jam, isJamming
\* is set, the link is healthy and now - lastJam >= 50; the burst uses
\* protocol (animFrame mod 3) + 1, one of 1, 2, 3, a value from 1 to
\* 2^24 - 1 and 24 bits, and stamps lastJam = now; a mode step of Jam whose
\* gate has not elapsed sends nothing and leaves lastJam as it is, so the
\* skipped burst is not made up for later.
C16_JamGate ==
    [][(pc = "mode" /\ pc' # "mode") =>
          /\ tick'.jammed =>
                /\ currentMode = "JAM" /\ isJamming /\ rfModuleConnected
                /\ Sub(clock, lastJam) >= 50
                /\ tick'.args.kind = "jam"
                /\ tick'.args.protocol = (animFrame % 3) + 1
                /\ tick'.args.protocol \in {1, 2, 3}
                /\ tick'.args.value >= 1 /\ tick'.args.value < 16777216
                /\ tick'.args.bits = 24
                /\ lastJam' = clock
                /\ ~tick'.sent
          /\ (currentMode = "JAM" /\ Sub(clock, lastJam) < 50) =>
                /\ ~tick'.jammed /\ ~tick'.sent
                /\ tick'.args = NoArgs
                /\ lastJam' = lastJam]_vars

\* an iteration of Jam 30 ms after a burst: jamming is on, the link is
\* healthy, and nothing is sent
C16_Witness ==
    /\ ModeDone
    /\ currentMode = "JAM" /\ isJamming /\ rfModuleConnected
    /\ lastJam > 0
    /\ Sub(clock, lastJam) = 30
    /\ ~tick.jammed
    /\ tick.frame = "jam"

\* C17: setup() ends either halted or at the first step of loop().  Once
\* halted the device stays halted: enableReceive and enableTransmit have not
\* been called, no link check has run, no step of loop() has run, and the
\* mode, capture and transmit state are those of the global initialisers
\* and never change.  When setup() goes on to loop(), currentMode is Menu,
\* menuSelection 0, capturedSignal.valid false, and both flags are false.
C17_BootHalt ==
    /\ [](pc = "halted" =>
            /\ ~radio.receive /\ ~radio.transmit
            /\ ~rfModuleConnected /\ lastRFCheck = 0
            /\ tick = EmptyTick
            /\ currentMode = "MENU" /\ menuSelection = 0
            /\ ~capturedSignal.valid /\ capturedSignal.value = 0
            /\ ~isTransmitting /\ ~isJamming
            /\ transmitCount = 0 /\ lastTransmit = 0 /\ lastJam = 0
            /\ obs.nSends = 0)
    /\ [][pc = "halted" =>
            /\ pc' = "halted"
            /\ UNCHANGED <<progVars, rx, tick, obs>>]_vars
    /\ [][pc = "setup" =>
            \/ pc' = "halted"
            \/ /\ pc' = FirstStep
               /\ radio'.receive /\ radio'.transmit
               /\ tick' = EmptyTick
               /\ currentMode' = "MENU" /\ menuSelection' = 0
               /\ ~capturedSignal'.valid
               /\ ~isTransmitting' /\ ~isJamming']_vars
    /\ [](pc \notin {"setup", "halted"} => (radio.receive /\ radio.transmit))

\* the halted device three seconds after the display failed to initialise
C17_Witness ==
    /\ pc = "halted"
    /\ uptime >= 2350
    /\ ~radio.receive
    /\ currentMode = "MENU"

\* the steps of a whole iteration, without and with a call of the mode's
\* radio function
QuietTick == <<"check", "anim", "buttons", "mode", "render">>

RadioTick == <<"check", "anim", "buttons", "mode", "radio", "render">>

\* s is an initial part of t
IsPrefix(s, t) == Len(s) <= Len(t) /\ s = SubSeq(t, 1, Len(s))

\* the frame loop()'s switch draws for mode m and link status c
FrameOf(m, c) ==
    CASE m = "MENU"    -> "menu"
      [] ~c            -> "warning"
      [] m = "READ"    -> "read"
      [] m = "EMULATE" -> "emulate"
      [] m = "JAM"     -> "jam"

C19_FlagMode ==
    /\ isTransmitting => (currentMode = "EMULATE" /\ capturedSignal.valid)
    /\ isJamming => currentMode = "JAM"
    /\ ~(isTransmitting /\ isJamming)

\* a call that dispatched two edges at once has left a replay switched on
C19_Witness ==
    /\ ButtonsDone
    /\ Cardinality(tick.dispatched) >= 2
    /\ "select" \in tick.dispatched
    /\ tick.from = "EMULATE"
    /\ isTransmitting

\* the mode Select enters from Menu with selection sel
EnteredFrom(sel) ==
    CASE sel = 0 -> "READ" [] sel = 1 -> "EMULATE" [] sel = 2 -> "JAM"

\* C20: a handleButtons call that dispatches several edges applies them in
\* the order Up, Down, Select, Back.  In Menu, Up with Select enters the
\* mode of the decremented selection, Down with Select the mode of the
\* incremented one, all three the mode of the selection as it was.  Select
\* with Back ends in Menu with both flags false in every mode, after Select
\* has had its effect (transmitCount 0 from Menu and from Emulate with a
\* capture, the gate timer of the mode 0).
C20_SameTickOrder ==
    [][pc = "buttons" =>
          LET d    == tick'.dispatched
              up   == IF menuSelection = 0 THEN 2 ELSE menuSelection - 1
              down == IF menuSelection = 2 THEN 0 ELSE menuSelection + 1
          IN /\ (currentMode = "MENU" /\ "select" \in d /\ "back" \notin d) =>
                   /\ ("up" \in d /\ "down" \notin d) =>
                         (menuSelection' = up /\ currentMode' = EnteredFrom(up))
                   /\ ("down" \in d /\ "up" \notin d) =>
                         (menuSelection' = down /\ currentMode' = EnteredFrom(down))
                   /\ ("up" \in d /\ "down" \in d) =>
                         (menuSelection' = menuSelection
                          /\ currentMode' = EnteredFrom(menuSelection))
                   /\ ~isTransmitting' /\ ~isJamming' /\ transmitCount' = 0
             /\ ("select" \in d /\ "back" \in d) =>
                   /\ currentMode' = "MENU"
                   /\ ~isTransmitting' /\ ~isJamming'
                   /\ currentMode = "MENU" => transmitCount' = 0
                   /\ (currentMode = "EMULATE" /\ capturedSignal.valid) =>
                         (transmitCount' = 0 /\ lastTransmit' = 0)
                   /\ currentMode = "JAM" => lastJam' = 0
             /\ Cardinality(d) >= 2 => btnState'.lastPress = clock]_vars

\* Select and Back dispatched together in Emulate with a capture and the
\* replay off: Select has switched it on, Back has switched it off again
\* and left for Menu
C20_Witness ==
    /\ ButtonsDone
    /\ tick.from = "EMULATE"
    /\ capturedSignal.valid
    /\ tick.dispatched = {"select", "back"}
    /\ currentMode = "MENU"
    /\ ~isTransmitting /\ ~isJamming
    /\ obs.nSends = 0
    /\ transmitCount = 0 /\ lastTransmit = 0

====
